---- MODULE Spec2Model ----
(***************************************************************************)
(* Model of src/src/core-js-dates-tasks.js: the date utilities             *)
(* getDayName, getNextFriday, getCountDaysInMonth, getWeekNumberByDate,    *)
(* getNextFridayThe13th and getWorkSchedule.                               *)
(*                                                                         *)
(* A JavaScript Date is its time value.  The unit of the time value in    *)
(* this model is one hour (the functions never look below the hour), the  *)
(* epoch is 1970-01-01T00:00Z, and the process runs at a fixed offset tz  *)
(* (hours east of UTC, no daylight saving).  The Date built-ins are       *)
(* modelled after the ECMAScript abstract operations they are defined by  *)
(* (Day, TimeWithinDay, MakeDay, YearFromTime, MonthFromTime,             *)
(* DateFromTime, WeekDay, LocalTime, UTC).                                 *)
(***************************************************************************)
EXTENDS Integers, Sequences, FiniteSets, TLC

VARIABLES pc, tz, input, argAfter, frame, result

vars == <<pc, tz, input, argAfter, frame, result>>

\* ------------------------------------------------------------------ bounds
MaxYear == 2028
MaxDepth == 20
MaxSpan == 6
MaxWork == 3
MaxOff == 3

HoursPerDay == 24

Years == 2001..MaxYear
HoursOfDay == {0, 13}
TZOffsets == {-5, 0, 3}

\* ------------------------------------------------- ECMAScript Date algebra
Day(t) == t \div HoursPerDay

TimeWithinDay(t) == t % HoursPerDay

\* days from the epoch to the first day of 0-based month mn of year y
DayFromYearMonth(y, mn) ==
  LET yy  == IF mn <= 1 THEN y - 1 ELSE y
      era == yy \div 400
      yoe == yy - era * 400
      mp  == IF mn >= 2 THEN mn - 2 ELSE mn + 10
      doy == (153 * mp + 2) \div 5
      doe == yoe * 365 + yoe \div 4 - yoe \div 100 + doy
  IN  era * 146097 + doe - 719468

\* MakeDay(year, month, date): month is 0-based and may overflow, date may be
\* any integer (0 is the last day of the previous month)
MakeDay(year, month, date) ==
  LET ym == year + month \div 12
      mn == month % 12
  IN  DayFromYearMonth(ym, mn) + date - 1

\* civil date of a day number: [year, month (0-based), date]
CivilFromDay(z) ==
  LET zz  == z + 719468
      era == zz \div 146097
      doe == zz - era * 146097
      yoe == (doe - doe \div 1460 + doe \div 36524 - doe \div 146096) \div 365
      doy == doe - (365 * yoe + yoe \div 4 - yoe \div 100)
      mp  == (5 * doy + 2) \div 153
      d   == doy - (153 * mp + 2) \div 5 + 1
      m   == IF mp < 10 THEN mp + 2 ELSE mp - 10
      y   == yoe + era * 400 + (IF m <= 1 THEN 1 ELSE 0)
  IN  [year |-> y, month |-> m, date |-> d]

YearFromTime(t) == CivilFromDay(Day(t)).year
MonthFromTime(t) == CivilFromDay(Day(t)).month
DateFromTime(t) == CivilFromDay(Day(t)).date

\* 0 = Sunday ... 6 = Saturday; the epoch day is a Thursday
WeekDay(t) == (Day(t) + 4) % 7

LocalTime(t, z) == t + z
UTC(t, z) == t - z

\* ------------------------------------------------------ Date object methods
\* new Date(year, month, date): local midnight of that civil day
NewDate(year, month, date, z) == UTC(MakeDay(year, month, date) * HoursPerDay, z)

getDay(t, z) == WeekDay(LocalTime(t, z))
getDate(t, z) == DateFromTime(LocalTime(t, z))
getMonth(t, z) == MonthFromTime(LocalTime(t, z))
getFullYear(t, z) == YearFromTime(LocalTime(t, z))
getUTCDate(t) == DateFromTime(t)

setDate(t, dt, z) ==
  LET lt == LocalTime(t, z)
  IN  UTC(MakeDay(YearFromTime(lt), MonthFromTime(lt), dt) * HoursPerDay
          + TimeWithinDay(lt), z)

setMonth(t, month, z) ==
  LET lt == LocalTime(t, z)
  IN  UTC(MakeDay(YearFromTime(lt), month, DateFromTime(lt)) * HoursPerDay
          + TimeWithinDay(lt), z)

setUTCDate(t, dt) ==
  MakeDay(YearFromTime(t), MonthFromTime(t), dt) * HoursPerDay + TimeWithinDay(t)

\* ------------------------------------------------------------- input sets
DateDays == MakeDay(2001, 0, 1)..MakeDay(MaxYear, 11, 31)
InputTimes == {d * HoursPerDay + h : d \in DateDays, h \in HoursOfDay}
Months == 1..12
PeriodDays == MakeDay(2024, 0, 1)..(MakeDay(2024, 0, 1) + MaxSpan)

Return(v) == [kind |-> "return", value |-> v]
Throw(msg) == [kind |-> "throw", value |-> msg]

\* -------------------------------------------------------------- getDayName
days == <<"Sunday", "Monday", "Tuesday", "Wensday", "Thursday", "Friday",
          "Saturday">>

getDayName(date, z) == days[getDay(date, z) + 1]

\* ----------------------------------------------------------- getNextFriday
\* variant without the "Friday maps to the Friday a week later" adjustment
NextFridayDelta_NoFridayFix(dayOfWeek) ==
  LET dayDelta == 5 - dayOfWeek
  IN  IF dayDelta = -1 THEN 6 ELSE dayDelta

NextFridayDelta(dayOfWeek) ==
  LET dayDelta == 5 - dayOfWeek
  IN  IF dayDelta = -1 THEN 6
      ELSE IF dayDelta = 0 THEN 7
      ELSE dayDelta

\* value: the returned Date; arg: the caller's Date object after the call
\* (the function works on the copy initDay)
getNextFriday(date, z) ==
  LET initDay   == date
      dayOfWeek == getDay(initDay, z)
      resultDay == getDate(initDay, z) + NextFridayDelta(dayOfWeek)
  IN  [value |-> setDate(initDay, resultDay, z), arg |-> date]

\* ----------------------------------------------------- getCountDaysInMonth
getCountDaysInMonth(month, year, z) ==
  LET date == NewDate(year, month + 1, 1, z)
  IN  getUTCDate(setUTCDate(date, 0))

\* ----------------------------------------------------- getWeekNumberByDate
Ceil(a, b) == (a + b - 1) \div b

getWeekNumberByDate(date, z) ==
  LET startYearDate == NewDate(getFullYear(date, z), 0, 1, z)
      giveYearDate  == date
  IN  Ceil(giveYearDate - startYearDate + HoursPerDay, 7 * HoursPerDay)

\* ---------------------------------------------------- getNextFridayThe13th
F13Candidate(date, z) == setDate(date, 13, z)

\* variant that forgets the comparison with the date searched from
F13Accept_NoLowerBound(dataCheck, date, z) == getDay(dataCheck, z) = 5

\* variant that compares strictly
F13Accept_Strict(dataCheck, date, z) == getDay(dataCheck, z) = 5 /\ dataCheck > date

F13Accept(dataCheck, date, z) == getDay(dataCheck, z) = 5 /\ dataCheck >= date

F13NextMonth(dataCheck, z) == setMonth(dataCheck, getMonth(dataCheck, z) + 1, z)

\* --------------------------------------------------------- getWorkSchedule
getWorkSchedule(period, countWorkDays, countOffDays) == Throw("Not implemented")

\* ------------------------------------------------------------------ system
Init ==
  /\ pc = "idle"
  /\ tz \in TZOffsets
  /\ input = [op |-> "none"]
  /\ argAfter = 0
  /\ frame = [date |-> 0, depth |-> 0]
  /\ result = [kind |-> "none", value |-> 0]

DoGetDayName ==
  /\ pc = "idle"
  /\ \E date \in InputTimes :
       /\ input' = [op |-> "getDayName", date |-> date]
       /\ argAfter' = date
       /\ result' = Return(getDayName(date, tz))
  /\ pc' = "getDayName"
  /\ UNCHANGED <<tz, frame>>

DoGetNextFriday ==
  /\ pc = "idle"
  /\ \E date \in InputTimes :
       LET r == getNextFriday(date, tz)
       IN  /\ input' = [op |-> "getNextFriday", date |-> date]
           /\ argAfter' = r.arg
           /\ result' = Return(r.value)
  /\ pc' = "getNextFriday"
  /\ UNCHANGED <<tz, frame>>

DoGetCountDaysInMonth ==
  /\ pc = "idle"
  /\ \E month \in Months, year \in Years :
       /\ input' = [op |-> "getCountDaysInMonth", month |-> month, year |-> year]
       /\ result' = Return(getCountDaysInMonth(month, year, tz))
  /\ pc' = "getCountDaysInMonth"
  /\ UNCHANGED <<tz, frame, argAfter>>

DoGetWeekNumberByDate ==
  /\ pc = "idle"
  /\ \E date \in InputTimes :
       /\ input' = [op |-> "getWeekNumberByDate", date |-> date]
       /\ argAfter' = date
       /\ result' = Return(getWeekNumberByDate(date, tz))
  /\ pc' = "getWeekNumberByDate"
  /\ UNCHANGED <<tz, frame>>

\* the caller's invocation: the first activation of the recursive function
F13Call ==
  /\ pc = "idle"
  /\ \E date \in InputTimes :
       /\ input' = [op |-> "getNextFridayThe13th", date |-> date]
       /\ argAfter' = date
       /\ frame' = [date |-> date, depth |-> 0]
  /\ pc' = "f13"
  /\ UNCHANGED <<tz, result>>

\* lines 247-251: the candidate of this activation is accepted and returned
F13Return ==
  /\ pc = "f13"
  /\ LET dataCheck == F13Candidate(frame.date, tz)
     IN  /\ F13Accept(dataCheck, frame.date, tz)
         /\ result' = Return(dataCheck)
  /\ pc' = "getNextFridayThe13th"
  /\ UNCHANGED <<tz, input, argAfter, frame>>

\* lines 252-253: advance the copy by one month and recurse on it
F13Recurse ==
  /\ pc = "f13"
  /\ frame.depth < MaxDepth
  /\ LET dataCheck == F13Candidate(frame.date, tz)
     IN  /\ ~F13Accept(dataCheck, frame.date, tz)
         /\ frame' = [date |-> F13NextMonth(dataCheck, tz),
                      depth |-> frame.depth + 1]
  /\ UNCHANGED <<pc, tz, input, argAfter, result>>

DoGetWorkSchedule ==
  /\ pc = "idle"
  /\ \E start \in PeriodDays, end \in PeriodDays,
        countWorkDays \in 0..MaxWork, countOffDays \in -1..MaxOff :
       /\ input' = [op |-> "getWorkSchedule", start |-> start, end |-> end,
                    countWorkDays |-> countWorkDays,
                    countOffDays |-> countOffDays]
       /\ result' = getWorkSchedule([start |-> start, end |-> end],
                                    countWorkDays, countOffDays)
  /\ pc' = "getWorkSchedule"
  /\ UNCHANGED <<tz, frame, argAfter>>

Next ==
  \/ DoGetDayName
  \/ DoGetNextFriday
  \/ DoGetCountDaysInMonth
  \/ DoGetWeekNumberByDate
  \/ F13Call
  \/ F13Return
  \/ F13Recurse
  \/ DoGetWorkSchedule

Spec == Init /\ [][Next]_vars

\* ============================================================== properties
Range(seq) == {seq[i] : i \in 1..Len(seq)}

LocalDay(t) == Day(LocalTime(t, tz))

ValidPattern == input.countWorkDays >= 1 /\ input.countOffDays >= 0

IsWorkDay(d) ==
  (d - input.start) % (input.countWorkDays + input.countOffDays)
    < input.countWorkDays

\* C1: for a period with start <= end and a pattern with countWorkDays >= 1 and
\* countOffDays >= 0, getWorkSchedule returns exactly the days d of
\* [start, end] with (d - start) mod (countWorkDays + countOffDays) <
\* countWorkDays.
C1_ScheduleIsCycleFromStart ==
  (pc = "getWorkSchedule" /\ ValidPattern /\ input.start <= input.end) =>
    /\ result.kind = "return"
    /\ Range(result.value) \subseteq input.start..input.end
    /\ \A d \in input.start..input.end :
         (d \in Range(result.value)) <=> IsWorkDay(d)

\* C2: for a valid pattern the returned sequence is strictly ascending, every
\* element lies in [start, end], start = end yields one element and
\* start > end yields the empty sequence without an error.
C2_ScheduleAscendingInRange ==
  (pc = "getWorkSchedule" /\ ValidPattern) =>
    /\ result.kind = "return"
    /\ \A i \in 1..Len(result.value) :
         /\ result.value[i] \in input.start..input.end
         /\ i > 1 => result.value[i - 1] < result.value[i]
    /\ input.start = input.end => Len(result.value) = 1
    /\ input.start > input.end => result.value = <<>>

\* C3: getWorkSchedule raises InvalidArgument exactly when countWorkDays < 1
\* or countOffDays < 0, and raises nothing for valid arguments.
C3_InvalidArgumentIffInvalid ==
  pc = "getWorkSchedule" =>
    IF ValidPattern THEN result.kind = "return"
    ELSE result = Throw("InvalidArgument")

LeapYear(y) == y % 4 = 0 /\ (y % 100 # 0 \/ y % 400 = 0)

DaysInMonth(month, year) ==
  IF month = 2 THEN (IF LeapYear(year) THEN 29 ELSE 28)
  ELSE IF month \in {4, 6, 9, 11} THEN 30
  ELSE 31

\* C4: for month in 1..12 (1 = January) getCountDaysInMonth(month, year) is
\* the number of days of that month of that year, whatever the timezone
\* offset of the process.
C4_CountDaysInMonth ==
  pc = "getCountDaysInMonth" =>
    result.value = DaysInMonth(input.month, input.year)

\* ISO 8601 week of a day number: the week (Monday first) is numbered within
\* the year that holds its Thursday
ISOWeek(d) ==
  LET mondayBased == (d + 3) % 7
      thursday    == d - mondayBased + 3
      y           == CivilFromDay(thursday).year
  IN  (thursday - MakeDay(y, 0, 1)) \div 7 + 1

\* C5: getWeekNumberByDate returns the ISO 8601 week number of the date, which
\* lies in 1..53.
C5_ISOWeekNumber ==
  pc = "getWeekNumberByDate" =>
    /\ result.value = ISOWeek(LocalDay(input.date))
    /\ result.value \in 1..53

\* C6: getNextFriday returns a Friday that is 1..7 whole days after the input
\* (7 for a Friday, 6 for a Saturday), and leaves the input Date unchanged.
\* Weekdays are those of the process's local time, as Date.getDay gives them.
C6_NextFriday ==
  pc = "getNextFriday" =>
    /\ getDay(result.value, tz) = 5
    /\ \E k \in 1..7 : result.value = input.date + k * HoursPerDay
    /\ getDay(input.date, tz) = 5 => result.value = input.date + 7 * HoursPerDay
    /\ getDay(input.date, tz) = 6 => result.value = input.date + 6 * HoursPerDay
    /\ argAfter = input.date

\* a Friday is mapped to the Friday of the next month, a week later
C6_Witness ==
  /\ pc = "getNextFriday"
  /\ getDay(input.date, tz) = 5
  /\ result.value = input.date + 7 * HoursPerDay
  /\ getMonth(result.value, tz) # getMonth(input.date, tz)

IsFridayThe13th(d) == CivilFromDay(d).date = 13 /\ (d + 4) % 7 = 5

\* C7: getNextFridayThe13th returns a Friday the 13th (local time) that is not
\* earlier than the input, no Friday the 13th lies between the input's day and
\* the result's day, and the input Date is left unchanged.
C7_NextFridayThe13th ==
  pc = "getNextFridayThe13th" =>
    /\ getDate(result.value, tz) = 13
    /\ getDay(result.value, tz) = 5
    /\ result.value >= input.date
    /\ \A d \in LocalDay(input.date)..(LocalDay(result.value) - 1) :
         ~IsFridayThe13th(d)
    /\ argAfter = input.date

\* the search starts after the 13th of a month whose 13th is a Friday, and
\* returns a later month's 13th
C7_Witness ==
  /\ pc = "getNextFridayThe13th"
  /\ getDate(input.date, tz) > 13
  /\ IsFridayThe13th(MakeDay(getFullYear(input.date, tz),
                             getMonth(input.date, tz), 13))
  /\ result.value > input.date

\* C9 as stated: the search never makes more than 13 recursive calls.
C9_AtMost13Steps == frame.depth <= 13

\* C9 as amended: the search never makes more than 14 recursive calls, and
\* after the 14th the candidate is accepted and returned.
C9_AtMost14Steps ==
  /\ frame.depth <= 14
  /\ (pc = "f13" /\ frame.depth = 14) =>
       F13Accept(F13Candidate(frame.date, tz), frame.date, tz)

\* a search that returns after exactly 14 recursive calls
C9_Witness == pc = "getNextFridayThe13th" /\ frame.depth = 14

WeekdayNames == <<"Sunday", "Monday", "Tuesday", "Wednesday", "Thursday",
                  "Friday", "Saturday">>

\* C8: getDayName returns the correctly spelled English name of the date's
\* day of the week.
C8_DayNameSpelling ==
  pc = "getDayName" => result.value = WeekdayNames[getDay(input.date, tz) + 1]

====
